---- MODULE Spec2Model ----
(***************************************************************************)
(* State-machine model of the PGP backend (src/server.js, with the         *)
(* Sequelize models of src/unnamed/part_000, required as ./db).            *)
(*                                                                         *)
(* Every HTTP request is a task that runs one handler; the points where a  *)
(* handler awaits the database are the points where other requests can     *)
(* interleave, and each action below is one such database step together    *)
(* with the synchronous code around it.  The database is PostgreSQL behind *)
(* Sequelize: rows written inside a transaction are invisible to the other *)
(* connections until COMMIT, sequences are not rolled back, and unique     *)
(* columns are enforced by the store itself.                               *)
(***************************************************************************)
EXTENDS Integers, Sequences, FiniteSets

\* Number of HTTP requests (each served once) that may be in flight together.
NumReq == 2

(***************************************************************************)
(* JavaScript values of a request body.                                    *)
(***************************************************************************)
Undefined == [t |-> "undefined"]
Null == [t |-> "null"]
NaN == [t |-> "NaN"]
\* a string, as its characters
Str(s) == [t |-> "string", chars |-> s]
\* a string that is only stored and compared, never parsed
Text(s) == [t |-> "string", text |-> s]
Num(n) == [t |-> "number", n |-> n]

\* !x
Falsy(x) ==
    \/ x.t \in {"undefined", "null", "NaN"}
    \/ x.t = "number" /\ x.n = 0
    \/ x.t = "string" /\ x \in {Str(<<>>), Text("")}

Digits == <<"0", "1", "2", "3", "4", "5", "6", "7", "8", "9">>

IsDigit(c) == \E i \in 1..10 : Digits[i] = c

DigitVal(c) == (CHOOSE i \in 1..10 : Digits[i] = c) - 1

RECURSIVE NatToString(_)
NatToString(n) ==
    IF n < 10 THEN <<Digits[n + 1]>>
    ELSE NatToString(n \div 10) \o <<Digits[(n % 10) + 1]>>

\* String(x), the conversion parseInt applies to its argument first
StringOf(x) ==
    CASE x.t = "string" -> x.chars
      [] x.t = "number" -> IF x.n < 0 THEN <<"-">> \o NatToString(-x.n)
                           ELSE NatToString(x.n)
      [] OTHER -> <<"u", "n", "d", "e", "f", "i", "n", "e", "d">>

RECURSIVE TrimLeft(_)
TrimLeft(s) ==
    IF s # <<>> /\ s[1] = " " THEN TrimLeft(Tail(s)) ELSE s

RECURSIVE DigitPrefix(_)
DigitPrefix(s) ==
    IF s # <<>> /\ IsDigit(s[1]) THEN <<s[1]>> \o DigitPrefix(Tail(s)) ELSE <<>>

RECURSIVE DigitsValue(_, _)
DigitsValue(s, acc) ==
    IF s = <<>> THEN acc ELSE DigitsValue(Tail(s), acc * 10 + DigitVal(s[1]))

\* parseInt(x, 10): leading blanks, an optional sign, the longest run of digits
ParseInt(x) ==
    LET s == TrimLeft(StringOf(x))
        signed == s # <<>> /\ s[1] \in {"-", "+"}
        d == DigitPrefix(IF signed THEN Tail(s) ELSE s)
        n == DigitsValue(d, 0)
    IN  IF d = <<>> THEN NaN
        ELSE Num(IF signed /\ s[1] = "-" THEN -n ELSE n)

(***************************************************************************)
(* The Sequelize models: the attributes each table has.                    *)
(***************************************************************************)
UsersAttributes == {"id", "username", "phone", "password"}
OrdersAttributes == {"billno", "date", "UserId"}
OrderItemsAttributes == {"id", "category", "color", "quantity", "OrderBillno"}

\* Model.build: a value given for a key that is no attribute of the model is dropped
Build(attrs, values) ==
    [a \in (DOMAIN values) \cap attrs |-> values[a]]

\* instance[key] = value: an attribute is recorded as changed, any other key is
\* a plain property of the JavaScript object
SetAttr(attrs, inst, key, value) ==
    IF key \in attrs
    THEN [data |-> [a \in DOMAIN inst.data |-> IF a = key THEN value ELSE inst.data[a]],
          changed |-> inst.changed \cup {key}]
    ELSE inst

\* instance.save(): UPDATE of the changed attributes; nothing changed, no query
Save(table, pk, inst) ==
    IF inst.changed = {} THEN table
    ELSE {IF row[pk] = inst.data[pk] THEN inst.data ELSE row : row \in table}

\* a WHERE clause on a column the table does not have makes the query fail
QueryOk(attrs, whereKeys) == whereKeys \subseteq attrs

FindByPk(table, pk, id) ==
    IF \E row \in table : row[pk] = id
    THEN CHOOSE row \in table : row[pk] = id
    ELSE Null

\* attributes: [...] / attributes: { exclude: [...] }
Project(row, keys) == [a \in (DOMAIN row) \cap keys |-> row[a]]

\* Users without its unique: true columns
UniqueViolation_NotEnforced(table, row) == FALSE

\* the unique: true columns of Users
UniqueViolation(table, row) ==
    \E u \in table : u.username = row.username \/ u.phone = row.phone

\* bcrypt.hash / bcrypt.compare
Hash(password) == <<"bcrypt", password>>
Compare(password, hashed) == hashed = Hash(password)

(***************************************************************************)
(* Request inputs.                                                         *)
(***************************************************************************)
Usernames == {"alice", "bob"}
Phones == {"555-1", "555-2"}
Passwords == {"pw", "other"}

NoToken == [t |-> "none"]
BadToken == [t |-> "bad"]
Jwt(id) == [t |-> "jwt", id |-> id]

Arr(s) == [t |-> "array", items |-> s]
Item(category, color, quantity) ==
    [category |-> category, color |-> color, quantity |-> quantity]

Shirt == Item(Text("shirt"), Text("blue"), Num(2))
Cap == Item(Text("cap"), Text("red"), Str(<<"3", "x">>))
NoCategory == Item(Undefined, Text("blue"), Num(1))
NoColor == Item(Text("shirt"), Undefined, Num(1))
NoQuantity == Item(Text("shirt"), Text("blue"), Undefined)
ZeroQuantity == Item(Text("shirt"), Text("blue"), Num(0))
NegativeQuantity == Item(Text("shirt"), Text("blue"), Str(<<"-", "1">>))
WordQuantity == Item(Text("cap"), Text("red"), Str(<<"t", "w", "o">>))

\* req.body.items of POST /api/orders
OrderBodies ==
    { Undefined, Text("shirt"), Arr(<<>>),
      Arr(<<Shirt>>), Arr(<<Shirt, Cap>>), Arr(<<Cap, Shirt>>),
      Arr(<<NoCategory>>), Arr(<<Shirt, NoColor>>), Arr(<<NoQuantity, Shirt>>),
      Arr(<<Cap, ZeroQuantity>>), Arr(<<NegativeQuantity>>),
      Arr(<<Shirt, WordQuantity>>) }

\* :billno, :userId and ?userId (0: not given); ?startDate&endDate (0: not given)
Ids == {0, 1, 7}
NoArg == [id |-> 0, from |-> 0, to |-> 0]
DateRanges == {NoArg, [id |-> 0, from |-> 2, to |-> 3]}

UserRoutes == {"profile", "listOrders", "createOrder"}
AdminRoutes ==
    {"stats", "undeliveredOrders", "markDelivered", "listUsers", "userDetail",
     "ordersForUser"}

Message == [kind |-> "message"]
Data(v) == [kind |-> "data", v |-> v]
Nothing == [kind |-> "none"]

(***************************************************************************)
(* State.                                                                  *)
(***************************************************************************)
VARIABLES
    users,      \* committed rows of table Users
    orders,     \* committed rows of table Orders
    items,      \* committed rows of table OrderItems
    seq,        \* the autoIncrement sequences
    now,        \* the clock behind Sequelize.NOW and new Date(), in days
    issued,     \* ids of the users a token was signed for
    req,        \* the requests: position in the handler, inputs, response
    tx          \* the transaction of each POST /api/orders request

vars == <<users, orders, items, seq, now, issued, req, tx>>

Req == 1..NumReq

IdleReq ==
    [pc |-> "idle", route |-> "", token |-> NoToken, user |-> Null,
     body |-> Undefined, arg |-> NoArg, created |-> 0, status |-> 0,
     out |-> Nothing]

NoTx == [finished |-> "none", order |-> {}, items |-> <<>>, log |-> <<>>]

UserRow(id, username, phone, password) ==
    Build(UsersAttributes,
          [id |-> id, username |-> username, phone |-> phone,
           password |-> Hash(password), authority |-> "USER"])

OrderRow(billno, date, userId) ==
    Build(OrdersAttributes, [billno |-> billno, date |-> date, UserId |-> userId])

ItemRow(id, item, billno) ==
    Build(OrderItemsAttributes,
          [id |-> id, category |-> item.category.text, color |-> item.color.text,
           quantity |-> ParseInt(item.quantity).n, OrderBillno |-> billno])

\* the store after sequelize.sync() on a new database
Init ==
    /\ users = {}
    /\ orders = {}
    /\ items = {}
    /\ seq = [user |-> 1, billno |-> 1, item |-> 1]
    /\ now = 1
    /\ issued = {}
    /\ req = [r \in Req |-> IdleReq]
    /\ tx = [r \in Req |-> NoTx]

\* the store of a server that has served two signups, two logins and one order
InitRegistered ==
    /\ users = {UserRow(1, "alice", "555-1", "pw"), UserRow(2, "bob", "555-2", "pw")}
    /\ orders = {OrderRow(1, 1, 1)}
    /\ items = {ItemRow(1, Shirt, 1)}
    /\ seq = [user |-> 3, billno |-> 2, item |-> 2]
    /\ now = 2
    /\ issued = {1, 2}
    /\ req = [r \in Req |-> IdleReq]
    /\ tx = [r \in Req |-> NoTx]

\* requests are numbered in the order they arrive
Arrives(r) ==
    /\ req[r].pc = "idle"
    /\ IF r = 1 THEN TRUE ELSE req[r - 1].pc # "idle"

Respond(r, status, out) ==
    [req EXCEPT ![r] = [@ EXCEPT !.pc = "done", !.status = status, !.out = out]]

(***************************************************************************)
(* POST /auth/signup                                                       *)
(***************************************************************************)
\* Users.findOne({ where: { phone } }), the first await of the handler
SignupCheckPhone(r) ==
    /\ Arrives(r)
    /\ \E username \in Usernames, phone \in Phones, password \in Passwords :
         LET body == [username |-> username, phone |-> phone, password |-> password]
             got == [req[r] EXCEPT !.route = "signup", !.body = body]
         IN  req' = [req EXCEPT ![r] =
                       IF \E u \in users : u.phone = phone
                       THEN [got EXCEPT !.pc = "done", !.status = 409, !.out = Message]
                       ELSE [got EXCEPT !.pc = "signup_username"]]
    /\ UNCHANGED <<users, orders, items, seq, now, issued, tx>>

\* Users.findOne({ where: { username } })
SignupCheckUsername(r) ==
    /\ req[r].pc = "signup_username"
    /\ req' = IF \E u \in users : u.username = req[r].body.username
              THEN Respond(r, 409, Message)
              ELSE [req EXCEPT ![r].pc = "signup_create"]
    /\ UNCHANGED <<users, orders, items, seq, now, issued, tx>>

\* bcrypt.hash, then Users.create: the INSERT fails on a taken unique column
\* and the catch block answers 500
SignupCreate(r) ==
    /\ req[r].pc = "signup_create"
    /\ LET b == req[r].body
           row == UserRow(seq.user, b.username, b.phone, b.password)
       IN  /\ seq' = [seq EXCEPT !.user = @ + 1]
           /\ IF UniqueViolation(users, row)
              THEN /\ users' = users
                   /\ req' = Respond(r, 500, Message)
              ELSE /\ users' = users \cup {row}
                   /\ req' = [Respond(r, 201, Message) EXCEPT ![r].created = row.id]
    /\ UNCHANGED <<orders, items, now, issued, tx>>

(***************************************************************************)
(* POST /auth/login                                                        *)
(***************************************************************************)
Login(r) ==
    /\ Arrives(r)
    /\ \E phone \in Phones, password \in Passwords :
         LET body == [phone |-> phone, password |-> password]
             got == [req[r] EXCEPT !.route = "login", !.body = body, !.pc = "done"]
             found == \E u \in users : u.phone = phone
             user == CHOOSE u \in users : u.phone = phone
         IN  IF found /\ Compare(password, user.password)
             THEN /\ issued' = issued \cup {user.id}
                  /\ req' = [req EXCEPT ![r] =
                       [got EXCEPT !.status = 200,
                                   !.out = Data([token |-> Jwt(user.id),
                                                 authority |-> Project(user, {"authority"})])]]
             ELSE /\ issued' = issued
                  /\ req' = [req EXCEPT ![r] =
                       [got EXCEPT !.status = 401, !.out = Message]]
    /\ UNCHANGED <<users, orders, items, seq, now, tx>>

(***************************************************************************)
(* Queries with include: the rows of one SELECT ... JOIN                   *)
(***************************************************************************)
RECURSIVE ById(_)
ById(rows) ==
    IF rows = {} THEN <<>>
    ELSE LET first == CHOOSE i \in rows : \A j \in rows : i.id <= j.id
         IN  <<first>> \o ById(rows \ {first})

\* include: [OrderItems]
WithItems(o) ==
    [order |-> o, OrderItems |-> ById({i \in items : i.OrderBillno = o.billno})]

\* order: [['date', 'DESC']]
RECURSIVE NewestFirst(_)
NewestFirst(rows) ==
    IF rows = {} THEN <<>>
    ELSE LET first == CHOOSE o \in rows : \A p \in rows : p.date <= o.date
         IN  <<WithItems(first)>> \o NewestFirst(rows \ {first})

\* one month, in days (setMonth(getMonth() - 1))
OneMonth == 30

(***************************************************************************)
(* protect, isAdmin                                                        *)
(***************************************************************************)
\* jwt.verify, then Users.findByPk(decoded.id, { attributes: { exclude: ['password'] } })
Authenticate(token) ==
    IF token.t = "jwt"
    THEN LET user == FindByPk(users, "id", token.id)
         IN  IF user = Null THEN Null ELSE Project(user, UsersAttributes \ {"password"})
    ELSE Null

\* isAdmin that asks only for a signed-in user
IsAdmin_AnyUser(user) == user # Null

\* req.user && req.user.authority === 'ADMIN'
IsAdmin(user) ==
    /\ user # Null
    /\ "authority" \in DOMAIN user
    /\ user.authority = "ADMIN"

\* adminRouter.use(protect, isAdmin), userRouter.use(protect): the status the
\* middleware answers with, 0 when it calls next()
Gate(route, token) ==
    IF Authenticate(token) = Null THEN 401
    ELSE IF route \in AdminRoutes /\ ~IsAdmin(Authenticate(token)) THEN 403
    ELSE 0

(***************************************************************************)
(* The admin handlers: [status, out, orders]                               *)
(***************************************************************************)
\* GET /api/admin/stats
Stats ==
    IF QueryOk(UsersAttributes, {"authority"}) /\ QueryOk(OrdersAttributes, {"date"})
    THEN [status |-> 200,
          out |-> Data([userCount |-> Cardinality({u \in users : u.authority = "USER"}),
                        recentOrderCount |->
                            Cardinality({o \in orders : o.date >= now - OneMonth})]),
          orders |-> orders]
    ELSE [status |-> 500, out |-> Message, orders |-> orders]

\* GET /api/admin/orders/undelivered
UndeliveredOrders ==
    IF QueryOk(OrdersAttributes, {"status"})
    THEN [status |-> 200,
          out |-> Data(NewestFirst({o \in orders : o.status = FALSE})),
          orders |-> orders]
    ELSE [status |-> 500, out |-> Message, orders |-> orders]

\* PUT /api/admin/orders/:billno/deliver
MarkDelivered(billno) ==
    LET order == FindByPk(orders, "billno", billno)
        set == SetAttr(OrdersAttributes, [data |-> order, changed |-> {}],
                       "status", TRUE)
    IN  IF order = Null
        THEN [status |-> 404, out |-> Message, orders |-> orders]
        ELSE [status |-> 200, out |-> Message, orders |-> Save(orders, "billno", set)]

\* GET /api/admin/users
ListUsers ==
    IF QueryOk(UsersAttributes, {"authority"})
    THEN [status |-> 200,
          out |-> Data({Project(u, {"id", "username", "phone"}) :
                            u \in {v \in users : v.authority = "USER"}}),
          orders |-> orders]
    ELSE [status |-> 500, out |-> Message, orders |-> orders]

\* GET /api/admin/users/:userId
UserDetail(userId) ==
    LET user == FindByPk(users, "id", userId)
    IN  IF user = Null
        THEN [status |-> 404, out |-> Message, orders |-> orders]
        ELSE [status |-> 200, out |-> Data(Project(user, {"id", "username", "phone"})),
              orders |-> orders]

\* GET /api/admin/orders?userId=
OrdersForUser(userId) ==
    IF userId = 0
    THEN [status |-> 400, out |-> Message, orders |-> orders]
    ELSE [status |-> 200,
          out |-> Data(NewestFirst({o \in orders :
                          /\ o.UserId = userId
                          /\ o.date >= now - OneMonth
                          /\ o.date <= now})),
          orders |-> orders]

AdminHandler(route, arg) ==
    CASE route = "stats" -> Stats
      [] route = "undeliveredOrders" -> UndeliveredOrders
      [] route = "markDelivered" -> MarkDelivered(arg.id)
      [] route = "listUsers" -> ListUsers
      [] route = "userDetail" -> UserDetail(arg.id)
      [] route = "ordersForUser" -> OrdersForUser(arg.id)

(***************************************************************************)
(* A request to /api or /api/admin arrives                                 *)
(***************************************************************************)
Tokens == {NoToken, BadToken} \cup {Jwt(id) : id \in issued}

Args == DateRanges \cup {[NoArg EXCEPT !.id = i] : i \in Ids}

RouteArgs(route) ==
    CASE route \in {"markDelivered", "userDetail"} ->
            {[NoArg EXCEPT !.id = i] : i \in Ids \ {0}}
      [] route = "ordersForUser" -> {[NoArg EXCEPT !.id = i] : i \in Ids}
      [] OTHER -> {NoArg}

\* A request arrives and the middleware chain runs: protect awaits
\* Users.findByPk, and what follows it without a further await (isAdmin, GET
\* /api/profile, an admin handler) is given in one step with it.  The Users
\* row protect reads is never changed or deleted, so for the two routes of
\* /api whose handlers await the store, the chain is given in one step with
\* the handler's first query (Passes, in ListOrders and OrderCreate).
Protect(r, routes) ==
    /\ Arrives(r)
    /\ \E route \in routes, token \in Tokens, arg \in Args :
         LET got == [req[r] EXCEPT !.route = route, !.token = token, !.pc = "done"]
             status == Gate(route, token)
             user == Authenticate(token)
             answer == AdminHandler(route, arg)
         IN  /\ arg \in RouteArgs(route)
             /\ IF status # 0
                THEN /\ req' = [req EXCEPT ![r] =
                          [got EXCEPT !.arg = arg, !.status = status, !.out = Message]]
                     /\ orders' = orders
                ELSE IF route \in AdminRoutes
                THEN /\ req' = [req EXCEPT ![r] =
                          [got EXCEPT !.arg = arg, !.user = user,
                                      !.status = answer.status, !.out = answer.out]]
                     /\ orders' = answer.orders
                ELSE /\ route = "profile"
                     /\ req' = [req EXCEPT ![r] =
                          [got EXCEPT !.user = user, !.status = 200, !.out = Data(user)]]
                     /\ orders' = orders
    /\ UNCHANGED <<users, items, seq, now, issued, tx>>

\* protect calls next() for a request to route with this token and input
Passes(r, route, token) ==
    /\ Arrives(r)
    /\ Gate(route, token) = 0

Accepted(r, route, token, arg, body) ==
    [req[r] EXCEPT !.route = route, !.token = token, !.arg = arg, !.body = body,
                   !.user = Authenticate(token)]

\* a request to /api
ProtectUser(r) == Protect(r, UserRoutes)

\* a request to /api/admin
ProtectAdmin(r) == Protect(r, AdminRoutes)

(***************************************************************************)
(* GET /api/orders                                                         *)
(***************************************************************************)
ListOrders(r) ==
    /\ \E token \in Tokens, a \in DateRanges :
         /\ Passes(r, "listOrders", token)
         /\ LET got == Accepted(r, "listOrders", token, a, Undefined)
                mine == {o \in orders : o.UserId = got.user.id}
                found == IF a.from # 0 /\ a.to # 0
                         THEN {o \in mine : a.from <= o.date /\ o.date <= a.to}
                         ELSE mine
            IN  req' = [req EXCEPT ![r] =
                          [got EXCEPT !.pc = "done", !.status = 200,
                                      !.out = Data(NewestFirst(found))]]
    /\ UNCHANGED <<users, orders, items, seq, now, issued, tx>>

(***************************************************************************)
(* POST /api/orders                                                        *)
(***************************************************************************)
\* !(!items || !Array.isArray(items) || items.length === 0)
ItemsGiven(body) == body.t = "array" /\ Len(body.items) > 0

\* the two checks of the items.map callback, which throws when one fails
ItemValid(item) ==
    /\ ~(Falsy(item.category) \/ Falsy(item.color) \/ Falsy(item.quantity))
    /\ LET quantity == ParseInt(item.quantity)
       IN  ~(quantity.t = "NaN" \/ quantity.n <= 0)

\* itemsToCreate, with the ids the INSERT gives the rows
ItemsToCreate(body, billno, firstId) ==
    [k \in 1..Len(body.items) |-> ItemRow(firstId + k - 1, body.items[k], billno)]

Range(s) == {s[k] : k \in DOMAIN s}

\* t.rollback() / t.commit(): Sequelize refuses both on a finished transaction
Finished(t) == t.finished \in {"commit", "rollback"}

Rollback(t) ==
    [finished |-> "rollback", order |-> {}, items |-> <<>>,
     log |-> Append(t.log, "rollback")]

\* a catch block that answers 500 without t.rollback()
Catch_NoRollback(r, q, t) ==
    /\ tx' = [tx EXCEPT ![r] = t]
    /\ req' = [req EXCEPT ![r] =
                 [q EXCEPT !.pc = "done", !.status = 500, !.out = Message]]

\* catch (error): t.rollback(), then res.status(500), for an error thrown
\* with the request in state q and the transaction in state t.  On a finished transaction t.rollback()
\* throws inside the catch block: the handler's promise rejects and no
\* response is sent.
Catch(r, q, t) ==
    IF Finished(t)
    THEN /\ tx' = [tx EXCEPT ![r] = [t EXCEPT !.log = Append(@, "rollback")]]
         /\ req' = [req EXCEPT ![r] = [q EXCEPT !.pc = "rejected"]]
    ELSE /\ tx' = [tx EXCEPT ![r] = Rollback(t)]
         /\ req' = [req EXCEPT ![r] =
                      [q EXCEPT !.pc = "done", !.status = 500, !.out = Message]]

\* Orders.create({ UserId }) without { transaction: t }
OrdersCreate_NoTransaction(r, row) ==
    /\ tx' = [tx EXCEPT ![r] = [@ EXCEPT !.finished = "open"]]
    /\ orders' = orders \cup {row}

\* Orders.create({ UserId }, { transaction: t }): the row is written inside t
OrdersCreate(r, row) ==
    /\ tx' = [tx EXCEPT ![r] = [@ EXCEPT !.finished = "open", !.order = {row}]]
    /\ orders' = orders

\* sequelize.transaction(), the items check, Orders.create
OrderCreate(r) ==
    /\ \E token \in Tokens, body \in OrderBodies :
         /\ Passes(r, "createOrder", token)
         /\ LET got == Accepted(r, "createOrder", token, NoArg, body)
                began == [tx[r] EXCEPT !.finished = "open"]
            IN  IF ~ItemsGiven(body)
                THEN /\ tx' = [tx EXCEPT ![r] = Rollback(began)]
                     /\ req' = [req EXCEPT ![r] =
                           [got EXCEPT !.pc = "done", !.status = 400, !.out = Message]]
                     /\ UNCHANGED <<orders, seq, now>>
                ELSE \E ok \in BOOLEAN :
                       IF ok
                       THEN /\ OrdersCreate(r, OrderRow(seq.billno, now, got.user.id))
                            /\ seq' = [seq EXCEPT !.billno = @ + 1]
                            /\ now' = now + 1
                            /\ req' = [req EXCEPT ![r] =
                                  [got EXCEPT !.pc = "order_items",
                                              !.created = seq.billno]]
                       ELSE /\ Catch(r, got, began)
                            /\ UNCHANGED <<orders, seq, now>>
    /\ UNCHANGED <<users, items, issued>>

\* items.map, OrderItems.bulkCreate(itemsToCreate, { transaction: t })
OrderItemsCreate(r) ==
    /\ req[r].pc = "order_items"
    /\ LET body == req[r].body
       IN  IF \E k \in 1..Len(body.items) : ~ItemValid(body.items[k])
           THEN /\ Catch(r, req[r], tx[r])
                /\ seq' = seq
           ELSE \E ok \in BOOLEAN :
                  IF ok
                  THEN /\ tx' = [tx EXCEPT ![r].items =
                                    ItemsToCreate(body, req[r].created, seq.item)]
                       /\ seq' = [seq EXCEPT !.item = @ + Len(body.items)]
                       /\ req' = [req EXCEPT ![r].pc = "order_commit"]
                  ELSE /\ Catch(r, req[r], tx[r])
                       /\ seq' = seq
    /\ UNCHANGED <<users, orders, items, now, issued>>

\* t.commit(): the rows of t become visible together; a commit that fails
\* leaves the transaction finished all the same
OrderCommit(r) ==
    /\ req[r].pc = "order_commit"
    /\ \E ok \in BOOLEAN :
         IF ok
         THEN /\ orders' = orders \cup tx[r].order
              /\ items' = items \cup Range(tx[r].items)
              /\ tx' = [tx EXCEPT ![r] = [@ EXCEPT !.finished = "commit",
                                                   !.log = Append(@, "commit")]]
              /\ req' = [req EXCEPT ![r].pc = "order_readback"]
         ELSE /\ Catch(r, req[r], [finished |-> "commit", order |-> {}, items |-> <<>>,
                                   log |-> Append(tx[r].log, "commit failed")])
              /\ UNCHANGED <<orders, items>>
    /\ UNCHANGED <<users, seq, now, issued>>

\* Orders.findByPk(order.billno, { include: [OrderItems] }), res.status(201)
OrderReadBack(r) ==
    /\ req[r].pc = "order_readback"
    /\ \E ok \in BOOLEAN :
         IF ok
         THEN /\ req' = Respond(r, 201,
                          Data(WithItems(FindByPk(orders, "billno", req[r].created))))
              /\ tx' = tx
         ELSE Catch(r, req[r], tx[r])
    /\ UNCHANGED <<users, orders, items, seq, now, issued>>

(***************************************************************************)
(* Specifications                                                          *)
(***************************************************************************)
NextAuth ==
    \E r \in Req :
        \/ SignupCheckPhone(r)
        \/ SignupCheckUsername(r)
        \/ SignupCreate(r)
        \/ Login(r)

NextOrders ==
    \E r \in Req :
        \/ ProtectUser(r)
        \/ ListOrders(r)
        \/ OrderCreate(r)
        \/ OrderItemsCreate(r)
        \/ OrderCommit(r)
        \/ OrderReadBack(r)

NextAdmin == \E r \in Req : ProtectAdmin(r)

Next == NextAuth \/ NextOrders \/ NextAdmin

\* the server on a new database, or on one that earlier requests filled
Spec == (Init \/ InitRegistered) /\ [][Next]_vars

\* signup and login on a new database
SpecAuth == Init /\ [][NextAuth]_vars

\* the routes of /api on a database with users and an order
SpecOrders == InitRegistered /\ [][NextOrders]_vars

\* the routes of /api/admin on a database with users and an order
SpecAdmin == InitRegistered /\ [][NextAdmin]_vars

(***************************************************************************)
(* The claims                                                              *)
(***************************************************************************)
\* a request the middleware passed to the handler of route
Handled(r, route) == req[r].route = route /\ req[r].user # Null

Absent(x) == x.t \in {"undefined", "null"}

\* a quantity that does not parse to a positive integer
NotPositive(x) == ParseInt(x).t = "NaN" \/ ParseInt(x).n <= 0

\* items missing, not a list or empty, or an item without category, color or
\* quantity, or with a quantity that is not positive
InvalidOrder(body) ==
    \/ body.t # "array"
    \/ Len(body.items) = 0
    \/ \E k \in 1..Len(body.items) :
         \/ Absent(body.items[k].category)
         \/ Absent(body.items[k].color)
         \/ Absent(body.items[k].quantity)
         \/ NotPositive(body.items[k].quantity)

HasStatus(o, b) == "status" \in DOMAIN o /\ o.status = b

\* C1: every order in the store, and every order a reader was given, has at
\* least one item, whatever POST /api/orders requests are under way.
C1_OrdersHaveItems ==
    /\ \A o \in orders : \E i \in items : i.OrderBillno = o.billno
    /\ \A r \in Req :
         req[r].route \in {"listOrders", "undeliveredOrders", "ordersForUser"}
            /\ req[r].status = 200
         => \A k \in 1..Len(req[r].out.v) : Len(req[r].out.v[k].OrderItems) >= 1

\* a reader was given its one committed order, with items, while an order of
\* the same user written by an earlier request was still uncommitted
C1_ReadDuringTransaction ==
    \E w \in Req, r \in Req :
        /\ w < r
        /\ tx[w].finished = "open"
        /\ req[r].route = "listOrders"
        /\ req[r].status = 200
        /\ \E o \in tx[w].order : o.UserId = req[r].user.id
        /\ Len(req[r].out.v) = 1

\* C2: a POST /api/orders request with invalid items never has a row in the
\* store, and when its error response is sent its transaction is rolled back.
C2_InvalidOrderLeavesNoRows ==
    \A r \in Req :
        Handled(r, "createOrder") /\ InvalidOrder(req[r].body)
        => /\ \A o \in orders : o.billno # req[r].created
           /\ \A i \in items : i.OrderBillno # req[r].created
           /\ req[r].status # 0
              => req[r].status \in {400, 500} /\ tx[r].finished = "rollback"
           /\ req[r].pc \in {"done", "order_items"}

\* the invalid item is the second of the list: the Order row was written in
\* the transaction, and the transaction was rolled back before the answer
C2_RolledBackAfterInsert ==
    \E r \in Req :
        /\ Handled(r, "createOrder")
        /\ req[r].body = Arr(<<Shirt, NoColor>>)
        /\ req[r].created # 0
        /\ req[r].status = 500
        /\ tx[r].log = <<"rollback">>

\* C3: a POST /api/orders request with an invalid item, like one without
\* items, is answered 400 (here: whenever the Order insert itself succeeded).
C3_InvalidItemsBadRequest ==
    \A r \in Req :
        /\ Handled(r, "createOrder")
        /\ InvalidOrder(req[r].body)
        /\ req[r].status # 0
        /\ req[r].created # 0 \/ ~ItemsGiven(req[r].body)
        => req[r].status = 400

\* C4: an order's status is false when the order is created, and changes only
\* from false to true, in a step that answers a markDelivered request for it.
C4_StatusLifecycle ==
    [][\A o \in orders' :
         IF \E p \in orders : p.billno = o.billno
         THEN LET p == CHOOSE p \in orders : p.billno = o.billno
              IN  \/ Project(p, {"status"}) = Project(o, {"status"})
                  \/ /\ HasStatus(p, FALSE)
                     /\ HasStatus(o, TRUE)
                     /\ \E r \in Req :
                          /\ req[r].pc = "idle"
                          /\ req'[r].route = "markDelivered"
                          /\ req'[r].arg.id = o.billno
         ELSE HasStatus(o, FALSE)]_vars

\* C5: a markDelivered request of a signed-in user is answered 404 when no
\* order has the id, and 200 with the order's status true when one has.
C5_MarkDelivered ==
    \A r \in Req :
        /\ req[r].route = "markDelivered"
        /\ req[r].status # 0
        /\ Authenticate(req[r].token) # Null
        => IF \E o \in orders : o.billno = req[r].arg.id
           THEN /\ req[r].status = 200
                /\ \A o \in orders : o.billno = req[r].arg.id => HasStatus(o, TRUE)
           ELSE req[r].status = 404

\* C6: a signup whose phone or username another stored user holds is
\* answered 409 and has created no user.
C6_DuplicateSignupConflict ==
    \A r \in Req :
        /\ req[r].route = "signup"
        /\ req[r].status # 0
        /\ \E u \in users :
             /\ u.id # req[r].created
             /\ u.phone = req[r].body.phone \/ u.username = req[r].body.username
        => req[r].status = 409 /\ req[r].created = 0

\* C7: a request to a route of /api/admin without a valid token is answered
\* 401, one with the token of a user whose role is not ADMIN is answered 403
\* (the token is judged first); either way the step returns no data and leaves
\* the store as it was.
C7_AdminGate ==
    [][\A r \in Req :
         req[r].pc = "idle" /\ req'[r].pc # "idle" /\ req'[r].route \in AdminRoutes
         => LET token == req'[r].token
                holder == {u \in users : token.t = "jwt" /\ u.id = token.id}
                admin == \E u \in holder :
                            "authority" \in DOMAIN u /\ u.authority = "ADMIN"
                refused == /\ req'[r].out = Message
                           /\ UNCHANGED <<users, orders, items>>
            IN  /\ holder = {} => req'[r].status = 401 /\ refused
                /\ holder # {} /\ ~admin => req'[r].status = 403 /\ refused]_vars

\* one admin request was refused for its token, another for its user's role
C7_BothRefusals ==
    \E a \in Req, b \in Req :
        /\ req[a].route \in AdminRoutes
        /\ req[a].token = BadToken
        /\ req[a].status = 401
        /\ req[b].route = "markDelivered"
        /\ req[b].token.t = "jwt"
        /\ req[b].status = 403

\* C8: a POST /api/orders request answered 201 has added one order, of its
\* user and with status false, and one item per item of the request, in the
\* request's order, and the response holds that order with those items.
C8_CreateOrderResult ==
    \A r \in Req :
        Handled(r, "createOrder") /\ req[r].status = 201
        => LET mine == {o \in orders : o.billno = req[r].created}
               its == {i \in items : i.OrderBillno = req[r].created}
               given == req[r].body.items
               got == req[r].out.v
           IN  /\ Cardinality(mine) = 1
               /\ Cardinality(its) = Len(given)
               /\ \A o \in mine : o.UserId = req[r].user.id /\ HasStatus(o, FALSE)
               /\ got.order \in mine
               /\ Range(got.OrderItems) = its
               /\ Len(got.OrderItems) = Len(given)
               /\ \A k \in 1..Len(given) :
                    /\ got.OrderItems[k].category = given[k].category.text
                    /\ got.OrderItems[k].color = given[k].color.text
                    /\ got.OrderItems[k].quantity = ParseInt(given[k].quantity).n

\* C9: no two users in the store share a username or a phone.
C9_UniqueUsers ==
    \A u \in users, v \in users :
        u # v => u.username # v.username /\ u.phone # v.phone /\ u.id # v.id

\* a signup that passed both existence checks was refused by the store
C9_RefusedByStore ==
    \E r \in Req :
        /\ req[r].route = "signup"
        /\ req[r].status = 500
        /\ \E u \in users : u.phone = req[r].body.phone

\* C10: when the handler of POST /api/orders has finished, it has ended its
\* transaction by exactly one call: one commit, or one rollback.
C10_TransactionFinalisedOnce ==
    \A r \in Req :
        Handled(r, "createOrder") /\ req[r].pc \in {"done", "rejected"}
        => tx[r].log \in {<<"commit">>, <<"rollback">>}
====
